---- MODULE Spec2Model ----
(***************************************************************************)
(* Model of stats/statsd/common/collector.go: the statsd Collector.        *)
(*                                                                         *)
(* Producers call Collect concurrently; one goroutine executes Run, which  *)
(* on every ticker tick and once on ctx.Done() calls pushMetrics, and on   *)
(* ctx.Done() then calls finish and returns.  The statsd client is         *)
(* external: each of its calls is recorded in the log `calls`, and         *)
(* whether a call returns an error is chosen nondeterministically.         *)
(*                                                                         *)
(* float64 sample values are modelled in halves: the integer v stands for  *)
(* the float v/2, so that int64(value) truncates.                          *)
(***************************************************************************)
EXTENDS Integers, Sequences, FiniteSets, TLC

\* Total number of samples the producers hand to Collect in one behaviour.
MaxSamples == 2

\* Number of client calls that return an error in one behaviour.
MaxErrors == 1

\* Number of samples handed to Collect in one behaviour of the encoder runs.
MaxEncSamples == 1

\* Number of samples handed to Collect in one behaviour of the runs that
\* interleave Collect calls of several samples.
MaxAtomicSamples == 3

\* The goroutines that call Collect.
Producers == {"p1", "p2"}

\* The holder name of the goroutine that executes Run.
Loop == "run"

\* c.Client before Init has constructed one.
NilClient == [state |-> "nil", Namespace |-> ""]

VARIABLES
    Config,        \* c.Config: [Addr, Namespace]
    Client,        \* c.Client: NilClient or [state |-> "open"|"closed", Namespace]
    FilterTags,    \* c.FilterTags: "nil" or the name of the injected function
    startTime,     \* c.startTime: 0 is the zero time, 1 the time Run started
    buffer,        \* c.buffer
    bufferLock,    \* c.bufferLock: "free" or the goroutine that holds it
    initErr,       \* what Init returned: "notcalled", "nil" or the error
    ctxDone,       \* whether ctx has been cancelled
    colPc,         \* per producer: where it is in Collect
    pointSamples,  \* per producer: Collect's local pointSamples
    appendTmp,     \* per producer: the c.buffer value read by append
    runPc,         \* where the Run goroutine is
    runBranch,     \* the select case Run is executing: "none", "tick", "done"
    batch,         \* pushMetrics' local `buffer`, commit's `data`
    idx,           \* commit's position in data (1-based)
    calls,         \* log of the calls made on the statsd client
    source,        \* the samples upstream may emit in this run
    quota,         \* number of samples upstream may still emit
    nextId,        \* next *Sample allocation
    ingested,      \* history: the samples appended to c.buffer, in order
    drained,       \* history: the batches pushMetrics took, in order
    hist           \* history: counters and snapshots of Run's steps

vars == <<Config, Client, FilterTags, startTime, buffer, bufferLock, initErr,
          ctxDone, colPc, pointSamples, appendTmp, runPc, runBranch, batch,
          idx, calls, source, quota, nextId, ingested, drained, hist>>

----------------------------------------------------------------------------
(* Samples *)

\* A tag map is a set of <<key, value>> pairs with unique keys.
NoTags == {}

\* entry.Tags[key]: the value, or "" when the key is absent.
TagGet(tags, key) ==
    IF \E t \in tags : t[1] = key
    THEN (CHOOSE t \in tags : t[1] = key)[2]
    ELSE ""

\* A stats.Sample as the producers emit it.
MkSample(name, type, value, tags) ==
    [Metric |-> [Name |-> name, Type |-> type], Value |-> value, Tags |-> tags]

\* The samples of the encoder cases; values are in halves (2 is 1.0).
AllSamples ==
    { MkSample("http_reqs", "Counter", 2, {<<"method", "GET">>}),
      MkSample("data_sent", "Counter", 3, NoTags),
      MkSample("http_req_duration", "Trend", 5, {<<"method", "GET">>}),
      MkSample("vus", "Gauge", 4, NoTags),
      MkSample("checks", "Rate", 2, {<<"check", "checkA">>}),
      MkSample("checks", "Rate", 0, {<<"check", "checkA">>, <<"method", "GET">>}),
      MkSample("checks", "Rate", 1, {<<"check", "checkB">>}),
      MkSample("checks", "Rate", -2, {<<"check", "checkB">>}),
      MkSample("http_req_failed", "Rate", 2, {<<"method", "GET">>}),
      MkSample("http_req_failed", "Rate", 0, NoTags),
      MkSample("http_req_failed", "Rate", 3, NoTags),
      MkSample("checks", "Rate", 2, {<<"check", "">>}) }

\* The samples of the concurrency and lifecycle runs, where samples differ
\* by their identity.
FewSamples ==
    { MkSample("checks", "Rate", 0, {<<"check", "checkA">>, <<"method", "GET">>}) }

\* generateDataPoint: the *Sample that Collect buffers; id is its address.
generateDataPoint(sample, id) ==
    [id |-> id, Type |-> sample.Metric.Type, Metric |-> sample.Metric.Name,
     Value |-> sample.Value, Tags |-> sample.Tags]

----------------------------------------------------------------------------
(* Sample Encoder: dispatch and checkToString *)

\* int64(value) for a float in halves: truncation toward zero.
Int64Of(value) ==
    IF value >= 0 THEN value \div 2 ELSE -((-value) \div 2)

\* The order in which the injected filter lists the tags it keeps.
TagKeys == <<"check", "method">>

\* c.FilterTags(entry.Tags) for the injected function "all": key:value of
\* every tag, in TagKeys order.
RECURSIVE ListTags(_, _)
ListTags(tags, i) ==
    IF i > Len(TagKeys) THEN <<>>
    ELSE (IF \E t \in tags : t[1] = TagKeys[i]
          THEN <<TagKeys[i] \o ":" \o TagGet(tags, TagKeys[i])>>
          ELSE <<>>) \o ListTags(tags, i + 1)

TagListOfIgnoringNil(filter, tags) == ListTags(tags, 1)

\* dispatch, lines 162-165: tagList stays nil when no filter is set.
TagListOf(filter, tags) ==
    IF filter # "nil" THEN ListTags(tags, 1) ELSE <<>>

checkToStringTruncating(check, value) ==
    "check." \o check \o "." \o (IF Int64Of(value) = 0 THEN "fail" ELSE "pass")

\* checkToString
checkToString(check, value) ==
    "check." \o check \o "." \o (IF value = 0 THEN "fail" ELSE "pass")

\* A call on the client: Count's arg is an int64, the others' a float in
\* halves.
ClientCall(fn, name, arg, tagList) ==
    [fn |-> fn, name |-> name, arg |-> arg, tags |-> tagList, rate |-> 1]

\* dispatch, lines 168-186: the client calls made for entry (at most one).
DispatchCalls(entry, tagList) ==
    CASE entry.Type = "Counter" ->
           <<ClientCall("Count", entry.Metric, Int64Of(entry.Value), tagList)>>
      [] entry.Type = "Trend" ->
           <<ClientCall("TimeInMilliseconds", entry.Metric, entry.Value, tagList)>>
      [] entry.Type = "Gauge" ->
           <<ClientCall("Gauge", entry.Metric, entry.Value, tagList)>>
      [] entry.Type = "Rate" ->
           IF TagGet(entry.Tags, "check") # ""
           THEN <<ClientCall("Count",
                             checkToString(TagGet(entry.Tags, "check"), entry.Value),
                             1, tagList)>>
           ELSE <<ClientCall("Count", entry.Metric, Int64Of(entry.Value), tagList)>>
      [] OTHER -> <<>>

\* The log entry of a call: the call, whether it returned an error, and the
\* entry it was made for (NoEntry for Flush and Close).
Logged(call, err, entry) ==
    [call |-> call, err |-> err, entry |-> entry]

NoEntry == [id |-> 0, Type |-> "", Metric |-> "", Value |-> 0, Tags |-> {}]

\* c.Client.Flush() and c.Client.Close()
FlushCall == [fn |-> "Flush", name |-> "", arg |-> 0, tags |-> <<>>, rate |-> 0]
CloseCall == [fn |-> "Close", name |-> "", arg |-> 0, tags |-> <<>>, rate |-> 0]

IsEmission(l) == l.call.fn \in {"Count", "Gauge", "TimeInMilliseconds"}

----------------------------------------------------------------------------
(* Lifecycle Manager: Init *)

AddrNeverInvalid(address) == FALSE

\* Init, line 54: the address check.
AddrInvalid(address) == address = ""

\* The caller starts Run once, and only when Init returned nil.
RunMayStart == initErr = "nil" /\ runPc = "notstarted"

\* The configurations and tag filters a collector is constructed with.
Configs == [Addr : {"", "localhost:8125"}, Namespace : {"", "k6."}]
Filters == {"nil", "all"}

\* The collectors of the concurrency and lifecycle runs.
Setups ==
    { <<[Addr |-> "", Namespace |-> "k6."], "nil">>,
      <<[Addr |-> "localhost:8125", Namespace |-> ""], "all">>,
      <<[Addr |-> "localhost:8125", Namespace |-> "k6."], "nil">> }

\* The collector after construction, before Init is called, and the
\* context its Run will be given: cancelled already, or not.
ConstructedWithContext(cancelled) ==
    /\ Client = NilClient
    /\ startTime = 0
    /\ buffer = <<>>
    /\ bufferLock = "free"
    /\ initErr = "notcalled"
    /\ ctxDone = cancelled
    /\ colPc = [p \in Producers |-> "idle"]
    /\ pointSamples = [p \in Producers |-> <<>>]
    /\ appendTmp = [p \in Producers |-> <<>>]
    /\ runPc = "notstarted"
    /\ runBranch = "none"
    /\ batch = <<>>
    /\ idx = 0
    /\ calls = <<>>
    /\ nextId = 1
    /\ ingested = <<>>
    /\ drained = <<>>
    /\ hist = [newBuffered |-> 0, emptyPush |-> FALSE, termPushes |-> 0,
               atDone |-> <<>>, bufAtDone |-> <<>>, callsAtDone |-> 0,
               termBatch |-> <<>>, errors |-> 0, link |-> "notcalled",
               emptyCollect |-> FALSE, callOf |-> <<>>]

\* The collector after construction, its context not cancelled.
Constructed == ConstructedWithContext(FALSE)

Init ==
    /\ \E setup \in Setups : Config = setup[1] /\ FilterTags = setup[2]
    /\ source = FewSamples
    /\ quota = MaxSamples
    /\ Constructed

\* The encoder runs: any configuration and filter, every kind of sample.
InitEnc ==
    /\ Config \in {c \in Configs : c.Addr # ""}
    /\ FilterTags \in Filters
    /\ source = AllSamples
    /\ quota = MaxEncSamples
    /\ Constructed

\* The runs that interleave Collect calls of several samples.
InitAtomic ==
    /\ Config = [Addr |-> "localhost:8125", Namespace |-> ""]
    /\ FilterTags = "nil"
    /\ source = FewSamples
    /\ quota = MaxAtomicSamples
    /\ Constructed

\* The runs whose context is cancelled before Run is called.
InitCancelled ==
    /\ Config = [Addr |-> "localhost:8125", Namespace |-> ""]
    /\ FilterTags = "all"
    /\ source = FewSamples
    /\ quota = MaxSamples
    /\ ConstructedWithContext(TRUE)

producerVars == <<colPc, pointSamples, appendTmp>>
runVars == <<runPc, runBranch, batch, idx>>
envVars == <<source, quota, nextId>>
cfgVars == <<Config, FilterTags>>

\* The outcomes of a client call: it returns nil or, while the run's
\* errors last, an error.
ErrOutcomes == IF hist.errors < MaxErrors THEN BOOLEAN ELSE {FALSE}

CollectorInitSwallowsError ==
    /\ initErr = "notcalled"
    /\ IF AddrInvalid(Config.Addr)
       THEN /\ initErr' = "InvalidAddress"
            /\ UNCHANGED <<Client, hist>>
       ELSE \E built \in BOOLEAN :
              /\ hist' = [hist EXCEPT !.newBuffered = @ + 1]
              /\ initErr' = "nil"
              /\ IF ~built
                 THEN UNCHANGED Client
                 ELSE Client' = [state |-> "open", Namespace |-> Config.Namespace]
    /\ UNCHANGED <<cfgVars, startTime, buffer, bufferLock, ctxDone,
                   producerVars, runVars, calls, envVars, ingested, drained>>

\* Init, lines 53-76.  statsd.NewBuffered is external: it returns a client
\* or an error.
CollectorInit ==
    /\ initErr = "notcalled"
    /\ IF AddrInvalid(Config.Addr)
       THEN /\ initErr' = "InvalidAddress"
            /\ UNCHANGED <<Client, hist>>
       ELSE \E built \in BOOLEAN :
              /\ hist' = [hist EXCEPT !.newBuffered = @ + 1]
              /\ IF ~built
                 THEN /\ initErr' = "ClientConstructionError"
                      /\ UNCHANGED Client
                 ELSE /\ initErr' = "nil"
                      /\ Client' = [state |-> "open",
                                    Namespace |-> IF Config.Namespace # ""
                                                  THEN Config.Namespace
                                                  ELSE ""]
    /\ UNCHANGED <<cfgVars, startTime, buffer, bufferLock, ctxDone,
                   producerVars, runVars, calls, envVars, ingested, drained>>

\* Link, lines 79-81: the configured address; the caller keeps it.
Link ==
    /\ hist' = [hist EXCEPT !.link = Config.Addr]
    /\ UNCHANGED <<cfgVars, Client, startTime, buffer, bufferLock, initErr, ctxDone,
                   producerVars, runVars, calls, envVars, ingested, drained>>

----------------------------------------------------------------------------
(* Buffer: Collect *)

MutexNeverBlocks == TRUE

\* sync.Mutex: Lock returns only when no goroutine holds the mutex.
MutexAvailable == bufferLock = "free"

\* The arguments of one Collect call: a list of containers, each a list of
\* samples, with at most `room` samples in all.
ContainerInputs(src, room) ==
    {<<>>, << <<>> >>}
      \cup (IF room >= 1 THEN { << <<s>> >> : s \in src } ELSE {})
      \cup (IF room >= 2
            THEN { << <<s>>, <<>>, <<t>> >> : s \in src, t \in src }
                   \cup { << <<s, t>> >> : s \in src, t \in src }
            ELSE {})

\* Collect, lines 113-117: the samples of all containers, in order.
RECURSIVE GetAllSamples(_)
GetAllSamples(containers) ==
    IF containers = <<>> THEN <<>>
    ELSE Head(containers) \o GetAllSamples(Tail(containers))

\* Collect, line 115, over all samples: one new *Sample each.
DataPoints(samples, firstId) ==
    [i \in 1..Len(samples) |-> generateDataPoint(samples[i], firstId + i - 1)]

\* Collect, lines 111-119: build pointSamples; return when there are none.
CollectBegin(p) ==
    /\ colPc[p] = "idle"
    /\ \E containers \in ContainerInputs(source, quota) :
         LET samples == GetAllSamples(containers) IN
           /\ Len(samples) <= quota
           /\ pointSamples' = [pointSamples EXCEPT ![p] = DataPoints(samples, nextId)]
           /\ nextId' = nextId + Len(samples)
           /\ quota' = quota - Len(samples)
           /\ colPc' = [colPc EXCEPT ![p] = IF Len(samples) > 0 THEN "lock" ELSE "idle"]
           /\ hist' = IF Len(samples) > 0
                      THEN [hist EXCEPT !.callOf = @ \o [i \in 1..Len(samples) |->
                                                           nextId]]
                      ELSE [hist EXCEPT !.emptyCollect = TRUE]
    /\ UNCHANGED <<cfgVars, Client, startTime, buffer, bufferLock, initErr, ctxDone,
                   appendTmp, runVars, calls, source, ingested, drained>>

\* Collect, line 120
CollectLock(p) ==
    /\ colPc[p] = "lock"
    /\ MutexAvailable
    /\ bufferLock' = p
    /\ colPc' = [colPc EXCEPT ![p] = "append"]
    /\ UNCHANGED <<cfgVars, Client, startTime, buffer, initErr, ctxDone, pointSamples,
                   appendTmp, runVars, calls, envVars, ingested, drained, hist>>

\* Collect, line 121: append reads c.buffer ...
CollectAppendRead(p) ==
    /\ colPc[p] = "append"
    /\ appendTmp' = [appendTmp EXCEPT ![p] = buffer]
    /\ colPc' = [colPc EXCEPT ![p] = "store"]
    /\ UNCHANGED <<cfgVars, Client, startTime, buffer, bufferLock, initErr, ctxDone,
                   pointSamples, runVars, calls, envVars, ingested, drained, hist>>

CollectAppendStoreOverwrites(p) ==
    /\ colPc[p] = "store"
    /\ buffer' = pointSamples[p]
    /\ ingested' = ingested \o pointSamples[p]
    /\ colPc' = [colPc EXCEPT ![p] = "unlock"]
    /\ UNCHANGED <<cfgVars, Client, startTime, bufferLock, initErr, ctxDone,
                   pointSamples, appendTmp, runVars, calls, envVars, drained, hist>>

CollectAppendStorePerSample(p) ==
    /\ colPc[p] = "store"
    /\ buffer' = Append(appendTmp[p], Head(pointSamples[p]))
    /\ ingested' = Append(ingested, Head(pointSamples[p]))
    /\ pointSamples' = [pointSamples EXCEPT ![p] =
                          IF Len(@) > 1 THEN Tail(@) ELSE @]
    /\ bufferLock' = IF Len(pointSamples[p]) > 1 THEN "free" ELSE bufferLock
    /\ colPc' = [colPc EXCEPT ![p] =
                   IF Len(pointSamples[p]) > 1 THEN "lock" ELSE "unlock"]
    /\ UNCHANGED <<cfgVars, Client, startTime, initErr, ctxDone,
                   appendTmp, runVars, calls, envVars, drained, hist>>

\* ... and the result is stored in c.buffer.
CollectAppendStore(p) ==
    /\ colPc[p] = "store"
    /\ buffer' = appendTmp[p] \o pointSamples[p]
    /\ ingested' = ingested \o pointSamples[p]
    /\ colPc' = [colPc EXCEPT ![p] = "unlock"]
    /\ UNCHANGED <<cfgVars, Client, startTime, bufferLock, initErr, ctxDone,
                   pointSamples, appendTmp, runVars, calls, envVars, drained, hist>>

\* Collect, line 122, and the return.
CollectUnlock(p) ==
    /\ colPc[p] = "unlock"
    /\ bufferLock' = "free"
    /\ colPc' = [colPc EXCEPT ![p] = "idle"]
    /\ pointSamples' = [pointSamples EXCEPT ![p] = <<>>]
    /\ appendTmp' = [appendTmp EXCEPT ![p] = <<>>]
    /\ UNCHANGED <<cfgVars, Client, startTime, buffer, initErr, ctxDone,
                   runVars, calls, envVars, ingested, drained, hist>>

----------------------------------------------------------------------------
(* Dispatch Loop: Run, pushMetrics, commit, dispatch, finish *)

\* Run, lines 85-87.
RunStart ==
    /\ RunMayStart
    /\ startTime' = 1
    /\ runPc' = "select"
    /\ UNCHANGED <<cfgVars, Client, buffer, bufferLock, initErr, ctxDone, producerVars,
                   runBranch, batch, idx, calls, envVars, ingested, drained, hist>>

\* The context is cancelled from outside.
Cancel ==
    /\ ~ctxDone
    /\ ctxDone' = TRUE
    /\ UNCHANGED <<cfgVars, Client, startTime, buffer, bufferLock, initErr,
                   producerVars, runVars, calls, envVars, ingested, drained, hist>>

\* Run, lines 91-92: the ticker case; a tick may be pending at any time.
Tick ==
    /\ runPc = "select"
    /\ runPc' = "pushMetrics"
    /\ runBranch' = "tick"
    /\ UNCHANGED <<cfgVars, Client, startTime, buffer, bufferLock, initErr, ctxDone,
                   producerVars, batch, idx, calls, envVars, ingested, drained, hist>>

DoneCaseSkipsPush == "finish"

\* Run, line 94: the ctx.Done() case starts with pushMetrics.
DoneCaseEntry == "pushMetrics"

\* Run, lines 93-94: the ctx.Done() case, up to the call of pushMetrics.
CtxDone ==
    /\ runPc = "select"
    /\ ctxDone
    /\ runPc' = DoneCaseEntry
    /\ runBranch' = "done"
    /\ hist' = [hist EXCEPT !.atDone = ingested, !.bufAtDone = buffer,
                            !.callsAtDone = Len(calls)]
    /\ UNCHANGED <<cfgVars, Client, startTime, buffer, bufferLock, initErr, ctxDone,
                   producerVars, batch, idx, calls, envVars, ingested, drained>>

AfterPushAlwaysSelect(branch) == "select"

\* Run, lines 92 and 94-96: where Run continues when pushMetrics returns.
AfterPushMetrics(branch) ==
    IF branch = "done" THEN "finish" ELSE "select"

\* pushMetrics, line 127
PushLock ==
    /\ runPc = "pushMetrics"
    /\ MutexAvailable
    /\ bufferLock' = Loop
    /\ runPc' = "locked"
    /\ hist' = [hist EXCEPT !.termPushes = IF runBranch = "done" THEN @ + 1 ELSE @]
    /\ UNCHANGED <<cfgVars, Client, startTime, buffer, initErr, ctxDone, producerVars,
                   runBranch, batch, idx, calls, envVars, ingested, drained>>

PushEmptyFallsThrough ==
    /\ runPc = "locked"
    /\ Len(buffer) = 0
    /\ batch' = buffer
    /\ runPc' = "taken"
    /\ hist' = [hist EXCEPT !.emptyPush = TRUE]
    /\ UNCHANGED <<cfgVars, Client, startTime, buffer, bufferLock, initErr, ctxDone,
                   producerVars, runBranch, idx, calls, envVars, ingested, drained>>

\* pushMetrics, lines 128-131: nothing buffered.
PushEmpty ==
    /\ runPc = "locked"
    /\ Len(buffer) = 0
    /\ bufferLock' = "free"
    /\ runPc' = AfterPushMetrics(runBranch)
    /\ runBranch' = IF runBranch = "done" THEN "done" ELSE "none"
    /\ hist' = [hist EXCEPT !.emptyPush = TRUE]
    /\ UNCHANGED <<cfgVars, Client, startTime, buffer, initErr, ctxDone, producerVars,
                   batch, idx, calls, envVars, ingested, drained>>

BufferKept(buf) == buf

\* pushMetrics, line 133: c.buffer = nil.
BufferAfterTake(buf) == <<>>

\* pushMetrics, lines 132-133: take the buffer.
PushTake ==
    /\ runPc = "locked"
    /\ Len(buffer) # 0
    /\ batch' = buffer
    /\ buffer' = BufferAfterTake(buffer)
    /\ drained' = Append(drained, buffer)
    /\ hist' = [hist EXCEPT !.termBatch = IF runBranch = "done" THEN buffer ELSE @]
    /\ runPc' = "taken"
    /\ UNCHANGED <<cfgVars, Client, startTime, bufferLock, initErr, ctxDone,
                   producerVars, runBranch, idx, calls, envVars, ingested>>

PushUnlockKeepsLock ==
    /\ runPc = "taken"
    /\ runPc' = "commit"
    /\ idx' = 1
    /\ UNCHANGED <<cfgVars, Client, startTime, buffer, bufferLock, initErr, ctxDone,
                   producerVars, runBranch, batch, calls, envVars, ingested, drained,
                   hist>>

\* pushMetrics, line 134, and the call of commit.
PushUnlock ==
    /\ runPc = "taken"
    /\ bufferLock' = "free"
    /\ runPc' = "commit"
    /\ idx' = 1
    /\ UNCHANGED <<cfgVars, Client, startTime, buffer, initErr, ctxDone, producerVars,
                   runBranch, batch, calls, envVars, ingested, drained, hist>>

DispatchAbortsOnError ==
    /\ runPc = "commit"
    /\ idx <= Len(batch)
    /\ LET entry == batch[idx]
           made == DispatchCalls(entry, TagListOf(FilterTags, entry.Tags))
       IN \E err \in ErrOutcomes :
            /\ calls' = Append(calls, Logged(made[1], err, entry))
            /\ hist' = [hist EXCEPT !.errors = IF err THEN @ + 1 ELSE @]
            /\ idx' = IF err THEN Len(batch) + 1 ELSE idx + 1
    /\ UNCHANGED <<cfgVars, Client, startTime, buffer, bufferLock, initErr, ctxDone,
                   producerVars, runPc, runBranch, batch, envVars, ingested, drained>>

\* commit, lines 155-157: dispatch the next entry; an error is only logged.
Dispatch ==
    /\ runPc = "commit"
    /\ idx <= Len(batch)
    /\ LET entry == batch[idx]
           made == DispatchCalls(entry, TagListOf(FilterTags, entry.Tags))
       IN IF made = <<>>
          THEN UNCHANGED <<calls, hist>>
          ELSE \E err \in ErrOutcomes :
                 /\ calls' = Append(calls, Logged(made[1], err, entry))
                 /\ hist' = [hist EXCEPT !.errors = IF err THEN @ + 1 ELSE @]
    /\ idx' = idx + 1
    /\ UNCHANGED <<cfgVars, Client, startTime, buffer, bufferLock, initErr, ctxDone,
                   producerVars, runPc, runBranch, batch, envVars, ingested, drained>>

RequeueOnError(buf, data, err) == IF err THEN data \o buf ELSE buf

\* pushMetrics, lines 140-144: what happens to c.buffer when commit returns
\* err: nothing.
BufferAfterCommit(buf, data, err) == buf

\* commit, line 158, and the return of pushMetrics, lines 140-145.
Flush ==
    /\ runPc = "commit"
    /\ idx > Len(batch)
    /\ \E err \in ErrOutcomes :
         /\ calls' = Append(calls, Logged(FlushCall, err, NoEntry))
         /\ buffer' = BufferAfterCommit(buffer, batch, err)
         /\ hist' = [hist EXCEPT !.errors = IF err THEN @ + 1 ELSE @]
    /\ runPc' = AfterPushMetrics(runBranch)
    /\ runBranch' = IF runBranch = "done" THEN "done" ELSE "none"
    /\ batch' = <<>>
    /\ idx' = 0
    /\ UNCHANGED <<cfgVars, Client, startTime, bufferLock, initErr, ctxDone,
                   producerVars, envVars, ingested, drained>>

FinishWithoutClose ==
    /\ runPc = "finish"
    /\ runPc' = "returned"
    /\ UNCHANGED <<cfgVars, Client, startTime, buffer, bufferLock, initErr, ctxDone,
                   producerVars, runBranch, batch, idx, calls, envVars, ingested,
                   drained, hist>>

FinishThenLoops ==
    /\ runPc = "finish"
    /\ \E err \in ErrOutcomes :
         /\ calls' = Append(calls, Logged(CloseCall, err, NoEntry))
         /\ hist' = [hist EXCEPT !.errors = IF err THEN @ + 1 ELSE @]
    /\ Client' = [Client EXCEPT !.state = "closed"]
    /\ runPc' = "select"
    /\ UNCHANGED <<cfgVars, startTime, buffer, bufferLock, initErr, ctxDone,
                   producerVars, runBranch, batch, idx, envVars, ingested, drained>>

\* finish, lines 147-152, and Run's return, line 96.
Finish ==
    /\ runPc = "finish"
    /\ \E err \in ErrOutcomes :
         /\ calls' = Append(calls, Logged(CloseCall, err, NoEntry))
         /\ hist' = [hist EXCEPT !.errors = IF err THEN @ + 1 ELSE @]
    /\ Client' = [Client EXCEPT !.state = "closed"]
    /\ runPc' = "returned"
    /\ UNCHANGED <<cfgVars, startTime, buffer, bufferLock, initErr, ctxDone,
                   producerVars, runBranch, batch, idx, envVars, ingested, drained>>

----------------------------------------------------------------------------
Next ==
    \/ CollectorInit
    \/ \E p \in Producers : CollectBegin(p)
    \/ \E p \in Producers : CollectLock(p)
    \/ \E p \in Producers : CollectAppendRead(p)
    \/ \E p \in Producers : CollectAppendStore(p)
    \/ \E p \in Producers : CollectUnlock(p)
    \/ RunStart
    \/ Cancel
    \/ Tick
    \/ CtxDone
    \/ PushLock
    \/ PushEmpty
    \/ PushTake
    \/ PushUnlock
    \/ Dispatch
    \/ Flush
    \/ Finish

Spec == Init /\ [][Next]_vars

\* Scheduling: a goroutine that can take a step takes one (the Run
\* goroutine and a producer inside the critical section); sync.Mutex hands
\* the lock to a waiter that keeps asking; select picks among its ready
\* cases at random, so the ctx.Done() case, ready at every select once the
\* context is cancelled, is taken at some select.
Fairness ==
    /\ SF_vars(CtxDone)
    /\ SF_vars(PushLock)
    /\ WF_vars(PushEmpty)
    /\ WF_vars(PushTake)
    /\ WF_vars(PushUnlock)
    /\ WF_vars(Dispatch)
    /\ WF_vars(Flush)
    /\ WF_vars(Finish)
    /\ \A p \in Producers :
         /\ WF_vars(CollectAppendRead(p))
         /\ WF_vars(CollectAppendStore(p))
         /\ WF_vars(CollectUnlock(p))

SpecFair == Spec /\ Fairness

\* The runs that interleave Collect calls of several samples: both
\* producers, and a Run that is not cancelled.
NextAtomic ==
    \/ CollectorInit
    \/ \E p \in Producers : CollectBegin(p)
    \/ \E p \in Producers : CollectLock(p)
    \/ \E p \in Producers : CollectAppendRead(p)
    \/ \E p \in Producers : CollectAppendStore(p)
    \/ \E p \in Producers : CollectUnlock(p)
    \/ RunStart
    \/ Tick
    \/ PushLock
    \/ PushEmpty
    \/ PushTake
    \/ PushUnlock
    \/ Dispatch
    \/ Flush

SpecAtomic == InitAtomic /\ [][NextAtomic]_vars

\* The runs whose context is cancelled before Run is called: every select
\* of Run finds ctx.Done() ready.
NextCancelled ==
    \/ CollectorInit
    \/ \E p \in Producers : CollectBegin(p)
    \/ \E p \in Producers : CollectLock(p)
    \/ \E p \in Producers : CollectAppendRead(p)
    \/ \E p \in Producers : CollectAppendStore(p)
    \/ \E p \in Producers : CollectUnlock(p)
    \/ RunStart
    \/ Tick
    \/ CtxDone
    \/ PushLock
    \/ PushEmpty
    \/ PushTake
    \/ PushUnlock
    \/ Dispatch
    \/ Flush
    \/ Finish

SpecCancelled == InitCancelled /\ [][NextCancelled]_vars

\* The runs in which the caller also asks for the Link.
NextLink ==
    \/ Next
    \/ Link

SpecLink == Init /\ [][NextLink]_vars

\* The encoder runs: one producer, and a Run that is not cancelled.
NextEnc ==
    \/ CollectorInit
    \/ CollectBegin("p1")
    \/ CollectLock("p1")
    \/ CollectAppendRead("p1")
    \/ CollectAppendStore("p1")
    \/ CollectUnlock("p1")
    \/ RunStart
    \/ Tick
    \/ PushLock
    \/ PushEmpty
    \/ PushTake
    \/ PushUnlock
    \/ Dispatch
    \/ Flush

SpecEnc == InitEnc /\ [][NextEnc]_vars

----------------------------------------------------------------------------
(* Properties *)

\* The concatenation of a sequence of sequences.
RECURSIVE Concat(_)
Concat(seqs) ==
    IF seqs = <<>> THEN <<>> ELSE Head(seqs) \o Concat(Tail(seqs))

\* The indices of the calls of the log made with function fn.
CallsOf(fn) == {k \in DOMAIN calls : calls[k].call.fn = fn}

\* The indices of the emissions of the log made for the entry with this id.
EmissionsFor(id) ==
    {k \in DOMAIN calls : IsEmission(calls[k]) /\ calls[k].entry.id = id}

\* The goroutines inside the critical section of c.bufferLock.
InCritical ==
    {p \in Producers : colPc[p] \in {"append", "store", "unlock"}}
      \cup (IF runPc \in {"locked", "taken"} THEN {Loop} ELSE {})

\* C1: at all times the drained batches, in the order they were taken,
\* followed by the buffer are exactly the ingested samples in insertion
\* order: every ingested sample is in the buffer or in exactly one drained
\* batch, none is in two drains, and each batch keeps the insertion order.
\* Every ingested sample is a distinct *Sample.
C1_DrainsPartitionIngested ==
    /\ Concat(drained) \o buffer = ingested
    /\ \A i, j \in DOMAIN ingested : i # j => ingested[i].id # ingested[j].id

\* C1 witness: a drain has taken one sample and a later Collect has put
\* another one in the buffer.
C1_Witness ==
    /\ Len(drained) = 1
    /\ Len(buffer) = 1
    /\ Len(ingested) = 2

\* C2: when Run has returned (the client is closed), every sample that was
\* appended to the buffer before Run took the ctx.Done() case has been
\* dispatched to the client by a call that precedes the Close.
C2_NoLossOnTermination ==
    runPc = "returned" =>
      /\ CallsOf("Close") # {}
      /\ \A i \in DOMAIN hist.atDone :
           \E k \in EmissionsFor(hist.atDone[i].id) :
             \A c \in CallsOf("Close") : k < c

\* C2 witness: Run has returned after one periodic flush and a terminal
\* flush that each carried a sample.
C2_Witness ==
    /\ runPc = "returned"
    /\ Len(drained) = 2
    /\ hist.termBatch # <<>>
    /\ Len(hist.atDone) = 2

\* C3: the ctx.Done() case runs pushMetrics exactly once, that run takes
\* everything that was buffered when the case was taken, it issues one
\* client Flush when it took something (none when the buffer was empty),
\* and then the client is closed exactly once, as the last call of all.
C3_TerminalFlushThenClose ==
    LET closes == CallsOf("Close")
        flushesAfterDone == {k \in CallsOf("Flush") : k > hist.callsAtDone}
    IN /\ hist.termPushes <= 1
       /\ Cardinality(closes) <= 1
       /\ closes # {} => /\ hist.termPushes = 1
                         /\ closes = {Len(calls)}
                         /\ runPc = "returned"
       /\ runPc \in {"finish", "returned"} =>
            /\ hist.termPushes = 1
            /\ Len(hist.bufAtDone) <= Len(hist.termBatch)
            /\ SubSeq(hist.termBatch, 1, Len(hist.bufAtDone)) = hist.bufAtDone
            /\ Cardinality(flushesAfterDone) = IF hist.termBatch = <<>> THEN 0 ELSE 1
       /\ runPc = "returned" => Cardinality(closes) = 1

\* C3 witness: Run has returned, and its terminal flush carried a sample
\* that was ingested after the last periodic flush.
C3_Witness ==
    /\ runPc = "returned"
    /\ Len(drained) = 2
    /\ hist.bufAtDone # <<>>
    /\ calls[Len(calls)].call.fn = "Close"
    /\ calls[Len(calls) - 1].call.fn = "Flush"

\* C4: when pushMetrics has taken the buffer, the batch holds exactly the
\* samples appended by all Collect calls since the previous drain, however
\* the Collect calls of the producers interleaved: no append is lost or
\* duplicated.  At most one goroutine is between Lock and Unlock.
C4_NoAppendLostByRace ==
    /\ Cardinality(InCritical) <= 1
    /\ runPc = "taken" =>
         /\ Len(drained) >= 1
         /\ Len(batch) = Len(ingested) - Len(Concat(SubSeq(drained, 1, Len(drained) - 1)))

\* C4 witness: a drain returns two samples of two Collect calls that
\* overlapped: the sample allocated second was appended first.
C4_Witness ==
    /\ runPc = "taken"
    /\ Len(batch) = 2
    /\ batch[1].id > batch[2].id

\* C5: while Run is in commit, dispatch or finish (every client call is
\* made there) it does not hold c.bufferLock, and the lock is held only by
\* a goroutine that is between its Lock and its Unlock; so the lock is
\* free whenever no producer is inside its own append.
C5_LockNotHeldDuringIO ==
    /\ runPc \in {"commit", "finish"} => bufferLock # Loop
    /\ bufferLock = Loop => runPc \in {"locked", "taken"}
    /\ \A p \in Producers :
         bufferLock = p => colPc[p] \in {"append", "store", "unlock"}
    /\ (runPc \in {"commit", "finish"} /\ InCritical = {}) => MutexAvailable

\* C5 witness: a producer holds the lock and appends while Run is in the
\* middle of a commit, after a client call.
C5_Witness ==
    /\ runPc = "commit"
    /\ idx = 2
    /\ Len(calls) >= 1
    /\ \E p \in Producers : colPc[p] = "store" /\ bufferLock = p

\* C6: a pushMetrics that finds the buffer empty returns at once: the step
\* that leaves its check makes no client call (no emission, no Flush),
\* takes no batch, leaves the buffer empty, releases the lock and brings
\* Run back to its select (or on to finish in the ctx.Done() case).
C6_EmptyDrainNoIO ==
    [][ (runPc = "locked" /\ Len(buffer) = 0 /\ runPc' # runPc) =>
          /\ calls' = calls
          /\ buffer' = <<>>
          /\ drained' = drained
          /\ batch' = batch
          /\ bufferLock' = "free"
          /\ runPc' = (IF runBranch = "done" THEN "finish" ELSE "select") ]_vars

\* C6 witness: a pushMetrics has found the buffer empty, and no call has
\* been made on the client.
C6_Witness ==
    /\ hist.emptyPush
    /\ runPc = "select"
    /\ calls = <<>>
    /\ bufferLock = "free"

\* C7: a client call that returns an error changes nothing for the
\* producers, puts nothing back in the buffer and does not stop Run: after
\* a failed emission commit goes on with the next entry, after a failed
\* Flush Run is back at its select (or goes on to finish), and no entry is
\* ever emitted a second time.
C7_ErrorsSwallowed ==
    [][ (Len(calls') = Len(calls) + 1 /\ calls'[Len(calls')].err) =>
          LET failed == calls'[Len(calls')] IN
          /\ colPc' = colPc
          /\ pointSamples' = pointSamples
          /\ buffer' = buffer
          /\ IsEmission(failed) =>
               (runPc' = "commit" /\ idx' = idx + 1 /\ batch' = batch)
          /\ failed.call.fn = "Flush" =>
               /\ runPc' = (IF runBranch = "done" THEN "finish" ELSE "select")
               /\ batch' = <<>>
          /\ \A k1, k2 \in DOMAIN calls' :
               (IsEmission(calls'[k1]) /\ IsEmission(calls'[k2])
                  /\ calls'[k1].entry.id = calls'[k2].entry.id) => k1 = k2 ]_vars

\* C7 witness: the Flush of a first batch failed, and a later tick drained
\* and flushed a newly ingested sample without error.
C7_Witness ==
    /\ Len(drained) = 2
    /\ runPc = "select"
    /\ buffer = <<>>
    /\ \E k, m \in CallsOf("Flush") : k < m /\ calls[k].err /\ ~calls[m].err
    /\ \A i \in DOMAIN ingested : Cardinality(EmissionsFor(ingested[i].id)) = 1

\* C8: once Init has been called with an empty address it has returned
\* the InvalidAddress error, statsd.NewBuffered has not been called, the
\* client is still unset and carries no namespace.
C8_EmptyAddressFails ==
    (initErr # "notcalled" /\ Config.Addr = "") =>
      /\ initErr = "InvalidAddress"
      /\ hist.newBuffered = 0
      /\ Client = NilClient
      /\ Client.Namespace = ""

\* C8 witness: Init has failed on an empty address with a namespace
\* configured.
C8_Witness ==
    /\ initErr = "InvalidAddress"
    /\ Config.Addr = ""
    /\ Config.Namespace # ""

\* The lifecycle state of the component, read off the Run goroutine.
Lifecycle ==
    CASE runPc = "notstarted" -> "Uninitialized"
      [] runPc = "returned" -> "Stopped"
      [] OTHER -> "Running"

\* C9: the lifecycle state changes only from Uninitialized to Running,
\* after Init has returned nil and built the client, and from Running to
\* Stopped, in the ctx.Done() case of a cancelled context, after the one
\* terminal pushMetrics and with the Close of the client; Stopped is
\* never left.
C9_Lifecycle ==
    [][ Lifecycle' # Lifecycle =>
          \/ /\ Lifecycle = "Uninitialized"
             /\ Lifecycle' = "Running"
             /\ initErr = "nil"
             /\ Client.state = "open"
          \/ /\ Lifecycle = "Running"
             /\ Lifecycle' = "Stopped"
             /\ ctxDone
             /\ runBranch = "done"
             /\ hist.termPushes = 1
             /\ bufferLock # Loop
             /\ Client'.state = "closed"
             /\ calls'[Len(calls')].call.fn = "Close" ]_vars

\* C9 witness: the component is Stopped while a producer is still inside
\* Collect.
C9_Witness ==
    /\ Lifecycle = "Stopped"
    /\ Client.state = "closed"
    /\ \E p \in Producers : colPc[p] = "store"

\* The entries commit has dispatched so far, in order.
Committed ==
    IF runPc \in {"taken", "commit"}
    THEN Concat(SubSeq(drained, 1, Len(drained) - 1))
           \o (IF runPc = "commit" THEN SubSeq(batch, 1, idx - 1) ELSE <<>>)
    ELSE Concat(drained)

\* C10: for every dispatched Rate entry with a non-empty check tag exactly
\* one client call has been made, and it is a Count of 1 on
\* check.<checkname>.pass when the value is nonzero and on
\* check.<checkname>.fail when it is zero, never on the entry's own metric
\* name.
C10_CheckRateDerivedCounter ==
    \A i \in DOMAIN Committed :
      LET entry == Committed[i]
          check == TagGet(entry.Tags, "check")
          made == {k \in DOMAIN calls : calls[k].entry.id = entry.id}
      IN (entry.Type = "Rate" /\ check # "") =>
           /\ Cardinality(made) = 1
           /\ \A k \in made :
                /\ calls[k].call.fn = "Count"
                /\ calls[k].call.arg = 1
                /\ calls[k].call.name =
                     (IF entry.Value # 0
                      THEN "check." \o check \o ".pass"
                      ELSE "check." \o check \o ".fail")
                /\ calls[k].call.name # entry.Metric

\* C10 witness: a Rate entry with check tag checkA and value 0 has been
\* dispatched as a Count on check.checkA.fail.
C10_Witness ==
    \E k \in DOMAIN calls :
      /\ calls[k].entry.Type = "Rate"
      /\ calls[k].entry.Value = 0
      /\ calls[k].call.name = "check.checkA.fail"
      /\ calls[k].call.fn = "Count"

\* The client calls of the log made for the entry with this id.
MadeFor(id) == {k \in DOMAIN calls : calls[k].entry.id = id}

\* C11: for every dispatched Rate entry whose check tag is absent or empty,
\* the one client call made is a Count on the entry's own metric name (no
\* derived check.* name) whose increment is the entry's raw value.
C11_PlainRateCounterRawValue ==
    \A i \in DOMAIN Committed :
      LET entry == Committed[i] IN
      (entry.Type = "Rate" /\ TagGet(entry.Tags, "check") = "") =>
        /\ Cardinality(MadeFor(entry.id)) = 1
        /\ \A k \in MadeFor(entry.id) :
             /\ calls[k].call.fn = "Count"
             /\ calls[k].call.name = entry.Metric
             /\ 2 * calls[k].call.arg = entry.Value

\* C11 witness: a Rate entry without check tag and with value 1.5 has been
\* dispatched as a Count of int64(1.5) = 1 on its own name.
C11_Witness ==
    \E k \in DOMAIN calls :
      /\ calls[k].entry.Type = "Rate"
      /\ calls[k].entry.Tags = NoTags
      /\ calls[k].entry.Value = 3
      /\ calls[k].call.fn = "Count"
      /\ calls[k].call.name = "http_req_failed"
      /\ calls[k].call.arg = 1

\* The indices of the emissions of the log.
Emissions == {k \in DOMAIN calls : IsEmission(calls[k])}

\* C12: every dispatched entry has exactly one emission; a
\* Counter's is a Count of the entry's value, a Trend's a
\* TimeInMilliseconds of its value, a Gauge's a Gauge of its value; there
\* are as many emissions as dispatched entries.
C12_OneCallPerKind ==
    /\ Cardinality(Emissions) = Len(Committed)
    /\ \A i \in DOMAIN Committed :
         LET entry == Committed[i] IN
         /\ Cardinality(MadeFor(entry.id)) = 1
         /\ \A k \in MadeFor(entry.id) :
              /\ calls[k].call.name = entry.Metric \/ entry.Type = "Rate"
              /\ entry.Type = "Counter" =>
                   (calls[k].call.fn = "Count" /\ 2 * calls[k].call.arg = entry.Value)
              /\ entry.Type = "Trend" =>
                   (calls[k].call.fn = "TimeInMilliseconds"
                      /\ calls[k].call.arg = entry.Value)
              /\ entry.Type = "Gauge" =>
                   (calls[k].call.fn = "Gauge" /\ calls[k].call.arg = entry.Value)

\* C12 witness: a Counter entry with value 1.5 has been dispatched as a
\* Count of 1, and it is the only emission.
C12_Witness ==
    /\ Cardinality(Emissions) = 1
    /\ \E k \in DOMAIN calls :
         /\ calls[k].entry.Type = "Counter"
         /\ calls[k].entry.Value = 3
         /\ calls[k].call.fn = "Count"
         /\ calls[k].call.name = "data_sent"
         /\ calls[k].call.arg = 1

\* The trace commit leaves on the client for a batch of which n entries
\* have been dispatched: their ids in order, and 0 for the Flush.
BatchTrace(data, n, flushed) ==
    [i \in 1..n |-> data[i].id] \o (IF flushed THEN <<0>> ELSE <<>>)

\* The traces of the batches taken so far, the last one as far as commit
\* has got with it.
CommitTraces ==
    LET current == runPc \in {"taken", "commit"}
        n == Len(drained)
    IN Concat([b \in 1..n |->
                 IF current /\ b = n
                 THEN BatchTrace(drained[b], IF runPc = "commit" THEN idx - 1 ELSE 0, FALSE)
                 ELSE BatchTrace(drained[b], Len(drained[b]), TRUE)])

\* The calls of the log up to the Close, each as the id of its entry (0 for
\* a Flush).
CallTrace ==
    LET made == SelectSeq(calls, LAMBDA l : l.call.fn # "Close")
    IN [k \in DOMAIN made |-> IF IsEmission(made[k]) THEN made[k].entry.id ELSE 0]

\* C13: the calls made on the client are, batch after batch in the order
\* the batches were taken, one emission for every entry of the batch in the
\* order of the batch and then exactly one Flush, whether or not some of
\* the emissions returned an error.
C13_DispatchInOrderThenFlush ==
    /\ CallTrace = CommitTraces
    /\ \A k \in CallsOf("Flush") : calls[k].entry = NoEntry

\* C13 witness: in a batch of two entries the first emission failed, the
\* second entry was emitted after it, and the one Flush followed.
C13_Witness ==
    /\ Len(drained) = 1
    /\ Len(drained[1]) = 2
    /\ Len(calls) = 3
    /\ IsEmission(calls[1]) /\ calls[1].err /\ calls[1].entry = drained[1][1]
    /\ IsEmission(calls[2]) /\ calls[2].entry = drained[1][2]
    /\ calls[3].call.fn = "Flush"

\* C14: every emission carries the list the injected filter returns for
\* the entry's tags, the derived check.* counter like any other; without a
\* filter every emission carries no tags.
C14_FilteredTagsOnEveryCall ==
    \A k \in Emissions :
      calls[k].call.tags =
        (IF FilterTags = "nil" THEN <<>> ELSE ListTags(calls[k].entry.Tags, 1))

\* C14 witness: without a filter, the emission of an entry that has tags
\* carries none.
C14_Witness ==
    \E k \in Emissions :
      /\ FilterTags = "nil"
      /\ calls[k].entry.Tags # {}
      /\ calls[k].call.tags = <<>>

\* a is a prefix of b.
IsPrefix(a, b) == Len(a) <= Len(b) /\ SubSeq(b, 1, Len(a)) = a

\* C15: a step of Collect, of Link or of Init makes no client call and
\* takes nothing out of the buffer: it leaves the log of calls, the drained
\* batches and Run's batch unchanged, and the buffer before it is a prefix
\* of the buffer after it; the append of a Collect adds exactly the call's
\* samples; a Collect of no samples changes neither the buffer nor the
\* lock.  Every step that makes a call or drains is a step of Run.
C15_OnlyRunDrainsAndCalls ==
    [][ /\ ( \/ colPc' # colPc
             \/ pointSamples' # pointSamples
             \/ initErr' # initErr
             \/ hist'.link # hist.link
             \/ hist'.emptyCollect # hist.emptyCollect ) =>
             /\ calls' = calls
             /\ drained' = drained
             /\ batch' = batch
             /\ runPc' = runPc
             /\ IsPrefix(buffer, buffer')
        /\ \A p \in Producers :
             (colPc[p] = "store" /\ colPc'[p] = "unlock") =>
               buffer' = buffer \o pointSamples[p]
        /\ hist'.emptyCollect # hist.emptyCollect =>
             (buffer' = buffer /\ bufferLock' = bufferLock /\ ingested' = ingested
                /\ colPc' = colPc)
        /\ (calls' # calls \/ drained' # drained \/ ~IsPrefix(buffer, buffer')) =>
             (runPc \in {"locked", "commit", "finish"} /\ colPc' = colPc
                /\ initErr' = initErr /\ hist'.link = hist.link) ]_vars

\* C15 witness: Init, Link, an empty Collect and a Collect that appended to
\* a non-empty buffer have all happened, and no call has been made on the
\* client although Run is started.
C15_Witness ==
    /\ initErr = "nil"
    /\ hist.link = "localhost:8125"
    /\ hist.emptyCollect
    /\ Len(buffer) = 2
    /\ buffer[1].id < buffer[2].id
    /\ \A p \in Producers : colPc[p] = "idle"
    /\ runPc = "select"
    /\ calls = <<>>
    /\ drained = <<>>

\* C18: once Init has returned an error (InvalidAddress or
\* ClientConstructionError) Run is never started: the component stays
\* Uninitialized, nothing is drained and no call is ever made, and the
\* client is still unset.  Whenever Run has been started, has drained or a
\* call has been made, Init had returned nil and had built the client.
C18_FailedInitPreventsRun ==
    /\ initErr \in {"InvalidAddress", "ClientConstructionError"} =>
         /\ Lifecycle = "Uninitialized"
         /\ calls = <<>>
         /\ drained = <<>>
         /\ batch = <<>>
         /\ bufferLock # Loop
         /\ Client = NilClient
    /\ (Lifecycle # "Uninitialized" \/ calls # <<>> \/ drained # <<>>) =>
         /\ initErr = "nil"
         /\ Client # NilClient

\* C18 witness: statsd.NewBuffered failed, the producers have handed in
\* all their samples and the context is cancelled; Run has not started and
\* the samples stay in the buffer.
C18_Witness ==
    /\ initErr = "ClientConstructionError"
    /\ hist.newBuffered = 1
    /\ Len(buffer) = MaxSamples
    /\ ctxDone
    /\ runPc = "notstarted"

\* C19: once the client has been closed no step makes a call on it: the
\* log of calls and the client stay as they are (no emission, no Flush and
\* no second Close), whatever the producers do; so the Close, when there
\* is one, is the last call of the log and the only Close.
C19_NoUseAfterClose ==
    [][ /\ Client.state = "closed" => (calls' = calls /\ Client' = Client)
        /\ \A k \in DOMAIN calls' :
             calls'[k].call.fn = "Close" =>
               (k = Len(calls') /\ Client'.state = "closed") ]_vars

\* C19 witness: the client is closed, a sample appended after the terminal
\* drain sits in the buffer, and a producer is about to append another one.
C19_Witness ==
    /\ Client.state = "closed"
    /\ calls[Len(calls)].call.fn = "Close"
    /\ Len(buffer) = 1
    /\ Len(ingested) > Len(hist.atDone)
    /\ \E p \in Producers : colPc[p] = "lock"

\* C17: when the context is cancelled and Run leaves its select, the case
\* it takes is the ctx.Done() case, so that no pushMetrics of the ticker
\* case starts after the cancellation, even with a tick pending.
C17_CancelTakenAtNextSelect ==
    [][ (ctxDone /\ runPc = "select" /\ runPc' # runPc) => runBranch' = "done" ]_vars

\* C17 amended: when the context is cancelled and Run leaves its select, it
\* takes the ctx.Done() case or, a tick being ready as well, the ticker
\* case (select picks one of the ready cases); the ctx.Done() case is
\* taken only at the select and only with the context cancelled, and once
\* it is taken Run never comes back to the select: one pushMetrics, the
\* terminal one, and then finish.
C17_CancelTakenAtSomeSelect ==
    [][ /\ (ctxDone /\ runPc = "select" /\ runPc' # runPc) =>
             (runBranch' \in {"tick", "done"} /\ runPc' = "pushMetrics")
        /\ (runBranch # "done" /\ runBranch' = "done") =>
             (ctxDone /\ runPc = "select")
        /\ runBranch = "done" =>
             /\ runBranch' = "done"
             /\ runPc' # "select"
             /\ hist'.termPushes <= 1
             /\ (hist'.termPushes # hist.termPushes) => runPc = "pushMetrics" ]_vars

\* C17 witness: the context was cancelled before Run's first select; Run
\* took the ticker case all the same and flushed a batch, and only at a
\* later select took the ctx.Done() case, whose terminal flush carried the
\* sample ingested in between.
C17_Witness ==
    /\ ctxDone
    /\ runPc = "finish"
    /\ runBranch = "done"
    /\ Len(drained) = 2
    /\ hist.callsAtDone = 2
    /\ hist.termBatch = drained[2]

\* The ids of the samples of a sequence.
IdsIn(seq) == {seq[i].id : i \in DOMAIN seq}

\* The ids of the samples handed in by the Collect call that handed in id.
CallMates(id) == {o \in DOMAIN hist.callOf : hist.callOf[o] = hist.callOf[id]}

\* C20: the samples of one Collect call (generateDataPoint gave them
\* consecutive ids, in the order of the containers) are in the ingestion
\* order one contiguous block in that order, never with a sample of another
\* call in between; they are all in the buffer or none is, and all in the
\* same drained batch or none is, so that no call is split across two
\* batches and no sample is in two batches.
C20_CollectIsAtomic ==
    /\ \A i, j \in DOMAIN ingested :
         (i < j /\ hist.callOf[ingested[i].id] = hist.callOf[ingested[j].id]) =>
           ingested[j].id - ingested[i].id = j - i
    /\ \A id \in DOMAIN hist.callOf : \A o \in CallMates(id) :
         /\ id \in IdsIn(ingested) <=> o \in IdsIn(ingested)
         /\ id \in IdsIn(buffer) <=> o \in IdsIn(buffer)
         /\ \A b \in DOMAIN drained :
              id \in IdsIn(drained[b]) <=> o \in IdsIn(drained[b])
    /\ \A b1, b2 \in DOMAIN drained :
         b1 # b2 => IdsIn(drained[b1]) \cap IdsIn(drained[b2]) = {}

\* C20 witness: a Collect of two samples and a Collect of one sample
\* overlapped; the second call appended first and was drained alone, and a
\* later drain took both samples of the first call together.
C20_Witness ==
    /\ Len(drained) = 2
    /\ [i \in DOMAIN drained[1] |-> drained[1][i].id] = <<3>>
    /\ [i \in DOMAIN drained[2] |-> drained[2][i].id] = <<1, 2>>
    /\ hist.callOf = <<1, 1, 3>>

\* C16: Run returns only after the context has been cancelled; and when the
\* context is cancelled and Run has been started, then, the goroutines
\* being scheduled fairly and every client call returning (with or without
\* an error), Run eventually has made its terminal pushMetrics, closed the
\* client and returned, whatever the producers do meanwhile.
C16_RunBlocksUntilCancelThenReturns ==
    /\ [](runPc \in {"finish", "returned"} => ctxDone)
    /\ (ctxDone /\ runPc # "notstarted") ~>
         (runPc = "returned" /\ Client.state = "closed" /\ hist.termPushes = 1)

\* C16 witness: Run has returned after a terminal flush that carried a
\* sample, the client is closed, and a producer holds the lock to append.
C16_Witness ==
    /\ runPc = "returned"
    /\ ctxDone
    /\ Client.state = "closed"
    /\ hist.termPushes = 1
    /\ hist.termBatch # <<>>
    /\ \E p \in Producers : bufferLock = p /\ colPc[p] = "append"

====
